---- MODULE Spec2Model ----
(***************************************************************************)
(* Weather / traffic synthetic data generators and the dataset merger.     *)
(*                                                                         *)
(*   scripts/weather_raw.py     generate_weather_dataset, __main__         *)
(*   scripts/traffic_raw.py     generate_traffic_dataset, __main__         *)
(*   scripts/merge_datasets.py  merge_data, __main__                       *)
(*                                                                         *)
(* Numbers are kept in hundredths (round(x, 2) is then exact): 15.00       *)
(* degrees is 1500, 8000 metres is 800000.  Identifiers are plain          *)
(* integers.  A table cell is a record [k, v, s]: k is the kind of the     *)
(* value ("null", "num", "str", or "ts" for a rendered timestamp).         *)
(*                                                                         *)
(* The pseudo-random generators are modelled as periodic streams: `tape`   *)
(* is the cycle of Python's `random`, `nptape` the cycle of numpy's        *)
(* global generator; both are arbitrary (chosen in Init) and seeding       *)
(* selects the phase.  A draw reads the cell under the position and        *)
(* advances the position, so the number of draws a helper makes shifts     *)
(* every later draw, as in the code.                                       *)
(***************************************************************************)
EXTENDS Integers, Sequences, FiniteSets, TLC

\* ------------------------------------------------------------------ bounds
P == 16           \* period of the modelled `random` stream
NP == 4           \* period of the modelled numpy stream
Fresh == 1        \* a new interpreter starts its generators in one of the states 0..Fresh
Top == 1          \* draws take the levels 0..Top: 0 is 0.0, Top is just below 1.0
MaxRows == 2      \* largest n_rows a call is given
MaxRuns == 2      \* launches of one script in a behaviour

\* ------------------------------------------------------------------- cells
Null == [k |-> "null", v |-> 0, s |-> ""]
Num(x) == [k |-> "num", v |-> x, s |-> ""]
Str(x) == [k |-> "str", v |-> 0, s |-> x]
\* the text of instant base + h hours rendered in format f
Ts(h, f) == [k |-> "ts", v |-> h, s |-> f]
IsNull(c) == c.k = "null"
IsNum(c) == c.k = "num"

\* --------------------------------------------------------- random sources
Levels == 0..Top
\* the states the two shared generators can be in when a script starts
RngStates == [py : 0..Fresh, np : 0..Fresh]

RECURSIVE LcgStates(_, _, _, _, _)
\* the first n states of the congruential generator x -> (a * x + c) % m from x
LcgStates(a, c, m, x, n) ==
    IF n = 0 THEN <<>> ELSE <<x>> \o LcgStates(a, c, m, (a * x + c) % m, n - 1)
\* the cycle of levels of that generator: the level is the leading part of the state
LcgTape(a, c, m) ==
    LET st == LcgStates(a, c, m, 0, m)
    IN [k \in 0..(m - 1) |-> (st[k + 1] * (Top + 1)) \div m]
Mults == {5, 9, 13, 21}
Incrs == {1, 3, 7, 11}

\* the call does not re-seed: the stream continues from the state it finds
SeedPy_NoReseed(s, prior) == prior

\* random.seed(s) / np.random.seed(s): the stream restarts at the phase of s
SeedPy(s, prior) == s % P
SeedNp(s, prior) == s % NP

\* comparisons of random.random() with a probability num/den
Below(u, num, den) == IF u = Top THEN num >= den ELSE u * den < num * Top
Above(u, num, den) == IF u = Top THEN num < den ELSE u * den > num * Top
\* random.uniform(a, b), random.randint(a, b), random.choice(seq)
Uniform(u, a, b) == a + ((b - a) * u) \div Top
RandInt(u, a, b) == a + ((b - a) * u) \div Top
Choice(u, seq) == seq[1 + ((Len(seq) - 1) * u) \div Top]

VARIABLES tape, nptape

Raw(p) == tape[p % P]
NpRaw(q) == nptape[q % NP]

\* ------------------------------------------------------------ pd.to_datetime
NaT == [ok |-> FALSE, month |-> 0, day |-> 0, hour |-> 0, inst |-> 0]
MonthLen == <<31, 29, 31, 30, 31, 30, 31, 31, 30, 31, 30, 31>>
RECURSIVE MonthOf(_, _)
\* month and day of the d-th day (from 0) of 2024, scanning from month m
MonthOf(d, m) ==
    IF m >= 12 \/ d < MonthLen[m] THEN [month |-> m, day |-> d + 1]
    ELSE MonthOf(d - MonthLen[m], m + 1)

\* parse of one cell; errors="coerce" turns everything unparseable into NaT.
\* The day-first rendering "%d/%m/%Y %I%p" is read month-first whenever the
\* day is a possible month.
to_datetime(c) ==
    IF c.k # "ts" THEN NaT
    ELSE LET md == MonthOf((c.v \div 24) % 366, 1)
             swap == c.s = "dmy" /\ md.day <= 12
         IN [ok |-> TRUE,
             month |-> IF swap THEN md.day ELSE md.month,
             day |-> IF swap THEN md.month ELSE md.day,
             hour |-> c.v % 24,
             inst |-> c.v]

\* ------------------------------------------------------- DefectInjector
\* maybe_null(value): one draw
maybe_null(value, null_ratio, p) ==
    [v |-> IF Below(Raw(p), null_ratio, 100) THEN Null ELSE value, p |-> p + 1]

\* with_outliers(normal_value, outlier_low, outlier_high): one draw when not
\* triggered, three when triggered
with_outliers(value, lo, hi, outlier_ratio, p) ==
    IF Below(Raw(p), outlier_ratio, 100)
    THEN IF Below(Raw(p + 1), 5, 10)
         THEN [v |-> Num(Uniform(Raw(p + 2), lo - 2500, lo)), p |-> p + 3]
         ELSE [v |-> Num(Uniform(Raw(p + 2), hi, hi + 2500)), p |-> p + 3]
    ELSE [v |-> value, p |-> p + 1]

\* ------------------------------------ weather_raw.py: helper functions
\* Each helper takes the position p of the `random` stream and returns the
\* value together with the position after its draws.

generate_datetime(index, bad_format_ratio, p) ==
    IF Below(Raw(p), bad_format_ratio, 100)
    THEN [v |-> Str(Choice(Raw(p + 1), <<"2099-13-40 25:61", "Unknown", "TBD">>)),
          p |-> p + 2]
    ELSE [v |-> Ts(2 * index, Choice(Raw(p + 1), <<"ymd", "dmy", "iso">>)),
          p |-> p + 2]

SeasonOfMonth(m) ==
    IF m \in {12, 1, 2} THEN "Winter"
    ELSE IF m \in {3, 4, 5} THEN "Spring"
    ELSE IF m \in {6, 7, 8} THEN "Summer"
    ELSE "Autumn"

get_season(dt_str, p) ==
    LET dt == to_datetime(dt_str)
    IN IF ~dt.ok
       THEN [v |-> Str(Choice(Raw(p), <<"Winter", "Spring", "Summer", "Autumn">>)),
             p |-> p + 1]
       ELSE [v |-> Str(SeasonOfMonth(dt.month)), p |-> p]

\* ranges.get(season, (0, 30))
TempRange(season) ==
    IF season = Str("Winter") THEN <<-500, 1500>>
    ELSE IF season = Str("Spring") THEN <<500, 2000>>
    ELSE IF season = Str("Summer") THEN <<1000, 3500>>
    ELSE IF season = Str("Autumn") THEN <<500, 2500>>
    ELSE <<0, 3000>>

temperature_by_season(season, p) ==
    [v |-> Num(Uniform(Raw(p), TempRange(season)[1], TempRange(season)[2])),
     p |-> p + 1]

\* season_ranges.get(season, (20, 100))
HumidityRange(season) ==
    IF season = Str("Winter") THEN <<40, 90>>
    ELSE IF season = Str("Spring") THEN <<30, 80>>
    ELSE IF season = Str("Summer") THEN <<20, 70>>
    ELSE IF season = Str("Autumn") THEN <<50, 100>>
    ELSE <<20, 100>>

generate_humidity(season, p) ==
    [v |-> Num(100 * RandInt(Raw(p), HumidityRange(season)[1], HumidityRange(season)[2])),
     p |-> p + 1]

generate_rain(humidity, p) ==
    IF IsNull(humidity) THEN [v |-> Num(Uniform(Raw(p), 0, 2000)), p |-> p + 1]
    ELSE IF humidity.v < 6000 THEN [v |-> Num(0), p |-> p]
    ELSE IF Above(Raw(p), 3, 10) THEN [v |-> Num(0), p |-> p + 1]
    ELSE IF humidity.v < 8000
         THEN [v |-> Num(Uniform(Raw(p + 1), 100, 1500)), p |-> p + 2]
         ELSE [v |-> Num(Uniform(Raw(p + 1), 1000, 8000)), p |-> p + 2]

\* Snow is considered at every temperature
generate_weather_condition_AnySnow(rain_mm, temperature_c, p) ==
    LET cold == ~IsNull(temperature_c)
        p1 == IF cold THEN p + 1 ELSE p
    IN IF cold /\ Below(Raw(p), 4, 10) THEN [v |-> Str("Snow"), p |-> p1]
       ELSE IF IsNull(rain_mm)
            THEN [v |-> Str(Choice(Raw(p1), <<"Clear", "Fog">>)), p |-> p1 + 1]
       ELSE IF rain_mm.v >= 5000
            THEN [v |-> Str(IF Below(Raw(p1), 6, 10) THEN "Storm" ELSE "Rain"),
                  p |-> p1 + 1]
       ELSE IF rain_mm.v >= 2500 THEN [v |-> Str("Rain"), p |-> p1]
       ELSE IF rain_mm.v >= 1000
            THEN [v |-> Str(IF Below(Raw(p1), 6, 10) THEN "Rain" ELSE "Clear"),
                  p |-> p1 + 1]
       ELSE IF rain_mm.v > 0
            THEN [v |-> Str(Choice(Raw(p1), <<"Clear", "Fog">>)), p |-> p1 + 1]
       ELSE [v |-> Str("Clear"), p |-> p1]

generate_weather_condition(rain_mm, temperature_c, p) ==
    LET cold == ~IsNull(temperature_c) /\ temperature_c.v <= 500
        p1 == IF cold THEN p + 1 ELSE p
    IN IF cold /\ Below(Raw(p), 4, 10) THEN [v |-> Str("Snow"), p |-> p1]
       ELSE IF IsNull(rain_mm)
            THEN [v |-> Str(Choice(Raw(p1), <<"Clear", "Fog">>)), p |-> p1 + 1]
       ELSE IF rain_mm.v >= 5000
            THEN [v |-> Str(IF Below(Raw(p1), 6, 10) THEN "Storm" ELSE "Rain"),
                  p |-> p1 + 1]
       ELSE IF rain_mm.v >= 2500 THEN [v |-> Str("Rain"), p |-> p1]
       ELSE IF rain_mm.v >= 1000
            THEN [v |-> Str(IF Below(Raw(p1), 6, 10) THEN "Rain" ELSE "Clear"),
                  p |-> p1 + 1]
       ELSE IF rain_mm.v > 0
            THEN [v |-> Str(Choice(Raw(p1), <<"Clear", "Fog">>)), p |-> p1 + 1]
       ELSE [v |-> Str("Clear"), p |-> p1]

generate_wind_speed(weather_condition, p) ==
    IF weather_condition = Str("Storm")
    THEN IF Below(Raw(p), 2, 10)
         THEN [v |-> Num(Uniform(Raw(p + 1), 10000, 15000)), p |-> p + 2]
         ELSE IF Below(Raw(p + 1), 6, 10)
              THEN [v |-> Num(Uniform(Raw(p + 2), 5000, 8000)), p |-> p + 3]
              ELSE [v |-> Num(Uniform(Raw(p + 2), 0, 8000)), p |-> p + 3]
    ELSE [v |-> Num(Uniform(Raw(p), 0, 8000)), p |-> p + 1]

Adverse == {Str("Fog"), Str("Rain"), Str("Storm"), Str("Snow")}

generate_visibility(weather_condition, p) ==
    IF Below(Raw(p), 3, 100)
    THEN [v |-> Str(Choice(Raw(p + 1), <<"unknown", "N/A", "error", "???">>)),
          p |-> p + 2]
    ELSE IF weather_condition \in Adverse
         THEN IF Below(Raw(p + 1), 15, 100)
              THEN [v |-> Num(100 * RandInt(Raw(p + 2), 50, 1000)), p |-> p + 3]
              ELSE IF Below(Raw(p + 2), 6, 10)
                   THEN [v |-> Num(100 * RandInt(Raw(p + 3), 1000, 8000)), p |-> p + 4]
                   ELSE [v |-> Num(100 * RandInt(Raw(p + 3), 8000, 12000)), p |-> p + 4]
         ELSE [v |-> Num(100 * RandInt(Raw(p + 1), 8000, 12000)), p |-> p + 2]

generate_air_pressure(weather_condition, temperature_c, p) ==
    LET storm == weather_condition = Str("Storm")
        wet == weather_condition \in {Str("Rain"), Str("Snow")}
        low0 == IF storm THEN Uniform(Raw(p), 95000, 97000)
                ELSE IF wet THEN Uniform(Raw(p), 96000, 99000)
                ELSE 99000
        high0 == IF storm THEN Uniform(Raw(p + 1), 98000, 100000)
                 ELSE IF wet THEN Uniform(Raw(p + 1), 100000, 105000)
                 ELSE 103000
        p2 == IF storm \/ wet THEN p + 2 ELSE p
        shift == IF IsNull(temperature_c) THEN 0
                 ELSE IF temperature_c.v > 3000 THEN -1000
                 ELSE IF temperature_c.v < 0 THEN 1000
                 ELSE 0
    IN [v |-> Num(Uniform(Raw(p2), low0 + shift, high0 + shift)), p |-> p2 + 1]

\* the literal of the "city" entry of the row
WeatherCity == "London"

\* ------------------------------------ weather_raw.py: one row of the loop
\* cfg = [n_rows, duplicate_ratio, null_ratio, outlier_ratio, bad_format_ratio],
\* the ratios in percent.  The loop body is a sequence of statements over the
\* locals `st`: the fields of the row under construction and the position p
\* of the `random` stream.  A statement's result is computed once and stored.

\* st with the local `name` set to the value of the result r; the stream moves on
Store(st, name, r) ==
    CHOOSE s2 \in {[st EXCEPT ![name] = x.v, !.p = x.p] : x \in {r}} : TRUE

\* maybe_null(with_outliers(g, lo, hi)) for a helper's result g
Inject(g, lo, hi, cfg) ==
    CHOOSE m \in
        UNION {{maybe_null(o.v, cfg.null_ratio, o.p)} :
                 o \in UNION {{with_outliers(x.v, lo, hi, cfg.outlier_ratio, x.p)} : x \in {g}}} :
        TRUE

\* maybe_null(g) for a helper's result g
NullOnly(g, cfg) ==
    CHOOSE m \in {maybe_null(x.v, cfg.null_ratio, x.p) : x \in {g}} : TRUE

\* the columns of the weather table
WeatherColumns == {"weather_id", "date_time", "city", "season", "temperature_c",
                   "humidity", "rain_mm", "weather_condition", "wind_speed_kmh",
                   "visibility_m", "air_pressure_hpa"}

WeatherLocals(p) ==
    [p |-> p, weather_id |-> Null, date_time |-> Null, city |-> Null, season |-> Null,
     temperature_c |-> Null, humidity |-> Null, rain_mm |-> Null,
     weather_condition |-> Null, wind_speed_kmh |-> Null, visibility_m |-> Null,
     air_pressure_hpa |-> Null]

\* the local each statement of the loop body assigns, in the order of the source
WeatherField == <<"date_time", "season", "temperature_c", "humidity", "rain_mm",
                  "weather_condition", "wind_speed_kmh", "visibility_m",
                  "air_pressure_hpa", "weather_id", "city">>
\* the statements whose value passes through with_outliers, and the
\* (outlier_low, outlier_high) each of them passes
WeatherNumeric == {3, 4, 5, 7, 8, 9}
WeatherBand(k) ==
    CASE k = 3 -> <<-3000, 6000>>
      [] k = 4 -> <<-1000, 15000>>
      [] k = 5 -> <<10000, 20000>>
      [] k = 7 -> <<20000, 35000>>
      [] k = 8 -> <<5000000, 12000000>>
      [] k = 9 -> <<90000, 110000>>

\* the value the k-th statement derives from the locals st, before
\* with_outliers and maybe_null are applied to it
WeatherHelper(k, i, cfg, st) ==
    CASE k = 1 -> generate_datetime(i, cfg.bad_format_ratio, st.p)
      [] k = 2 -> get_season(st.date_time, st.p)
      [] k = 3 -> temperature_by_season(st.season, st.p)
      [] k = 4 -> generate_humidity(st.season, st.p)
      [] k = 5 -> generate_rain(st.humidity, st.p)
      [] k = 6 -> generate_weather_condition(st.rain_mm, st.temperature_c, st.p)
      [] k = 7 -> generate_wind_speed(st.weather_condition, st.p)
      [] k = 8 -> generate_visibility(st.weather_condition, st.p)
      [] k = 9 -> generate_air_pressure(st.weather_condition, st.temperature_c, st.p)
      [] k = 10 -> [v |-> Num(5001 + i), p |-> st.p]
      [] k = 11 -> [v |-> Str(WeatherCity), p |-> st.p]

\* the k-th statement of the loop body, in the order of the source
WeatherStatement(k, i, cfg, st) ==
    Store(st, WeatherField[k],
          IF k \in WeatherNumeric
          THEN Inject(WeatherHelper(k, i, cfg, st), WeatherBand(k)[1], WeatherBand(k)[2], cfg)
          ELSE NullOnly(WeatherHelper(k, i, cfg, st), cfg))

RECURSIVE WeatherStatements(_, _, _, _)
\* the statements k..11 of the loop body run on the locals st
WeatherStatements(k, i, cfg, st) ==
    IF k > 11 THEN st
    ELSE CHOOSE r \in {WeatherStatements(k + 1, i, cfg, s2) :
                         s2 \in {WeatherStatement(k, i, cfg, st)}} : TRUE

\* the row dict of iteration i and the stream position after it
WeatherRow(i, cfg, p) ==
    CHOOSE r \in
        {[row |-> [c \in WeatherColumns |-> st[c]], p |-> st.p] :
            st \in {WeatherStatements(1, i, cfg, WeatherLocals(p))}} : TRUE

RECURSIVE WeatherRows(_, _, _, _)
\* for i in range(n_rows): rows.append(row)
WeatherRows(i, cfg, p, rows) ==
    IF i >= cfg.n_rows THEN [rows |-> rows, p |-> p]
    ELSE CHOOSE res \in
            UNION {{WeatherRows(i + 1, cfg, r.p % P, acc) : acc \in {Append(rows, r.row)}} :
                      r \in {WeatherRow(i, cfg, p)}} : TRUE

\* ------------------------------------------------------- DataFrame.sample
RemoveAt(seq, j) == [x \in 1..(Len(seq) - 1) |-> IF x < j THEN seq[x] ELSE seq[x + 1]]

RECURSIVE SamplePick(_, _, _, _)
\* k rows drawn without replacement with numpy's global generator
SamplePick(rest, k, q, out) ==
    IF k = 0 THEN [rows |-> out, q |-> q]
    ELSE CHOOSE res \in
            {SamplePick(RemoveAt(rest, j), k - 1, (q + 1) % NP, Append(out, rest[j])) :
                j \in {RandInt(NpRaw(q), 1, Len(rest))}} : TRUE

\* df.sample(n): ValueError when n exceeds the number of rows (replace=False)
Sample(rows, k, q) ==
    IF k > Len(rows) THEN [raised |-> TRUE, rows |-> <<>>, q |-> q]
    ELSE CHOOSE res \in {[raised |-> FALSE, rows |-> x.rows, q |-> x.q] :
                           x \in {SamplePick(rows, k, q, <<>>)}} : TRUE

\* int(n_rows * duplicate_ratio), the ratio in percent
DupCount(n_rows, duplicate_ratio) == (n_rows * duplicate_ratio) \div 100

\* df = pd.concat([df, df.sample(dup_count)]) on the rows of the loop
WithDuplicates(body, dup_count, q0) ==
    CHOOSE res \in
        {[raised |-> tail.raised,
          body |-> body.rows,
          df |-> IF tail.raised THEN <<>> ELSE body.rows \o tail.rows,
          rng |-> [py |-> body.p % P, np |-> tail.q % NP]] :
            tail \in {Sample(body.rows, dup_count, q0)}} : TRUE

\* --------------------------------------------- generate_weather_dataset
\* rng is the state of the two shared generators when the call starts; the
\* result carries the table and the state the call leaves behind.
generate_weather_dataset(cfg, rng) ==
    CHOOSE res \in
        {WithDuplicates(body, DupCount(cfg.n_rows, cfg.duplicate_ratio), SeedNp(42, rng.np)) :
            body \in {WeatherRows(0, cfg, SeedPy(42, rng.py), <<>>)}} : TRUE

\* ------------------------------------------ to_csv followed by read_csv
\* A number read back from a column that also holds text is text itself.
NumText(x) == [k |-> "str", v |-> x, s |-> "digits"]
\* the texts read_csv takes for a missing value
NaTexts == {Str("N/A")}
ReadCell(c) == IF c \in NaTexts THEN Null ELSE c
ColumnIsText(rows, col) ==
    \E i \in 1..Len(rows) : ReadCell(rows[i][col]).k \in {"str", "ts"}
ReadColumnCell(rows, col, c) ==
    IF IsNum(ReadCell(c)) /\ ColumnIsText(rows, col) THEN NumText(c.v) ELSE ReadCell(c)
\* pd.read_csv of the file written by df.to_csv(index=False)
ReadCsv(rows) ==
    [i \in 1..Len(rows) |->
        [col \in WeatherColumns |-> ReadColumnCell(rows, col, rows[i][col])]]

\* ------------------------------------ traffic_raw.py: helper functions
generate_area(p) ==
    [v |-> Str(Choice(Raw(p), <<"Camden", "Chelsea", "Islington", "Southwark",
                               "Kensington", "Westminster", "Greenwich">>)),
     p |-> p + 1]

generate_vehicle_count(time_str, p) ==
    LET dt == to_datetime(time_str)
        hour == dt.hour
    IN IF ~dt.ok THEN [v |-> Num(100 * RandInt(Raw(p), 100, 3000)), p |-> p + 1]
       ELSE IF (7 <= hour /\ hour <= 9) \/ (16 <= hour /\ hour <= 19)
            THEN [v |-> Num(100 * RandInt(Raw(p), 2000, 5000)), p |-> p + 1]
       ELSE IF 0 <= hour /\ hour <= 5
            THEN [v |-> Num(100 * RandInt(Raw(p), 0, 500)), p |-> p + 1]
       ELSE [v |-> Num(100 * RandInt(Raw(p), 800, 2500)), p |-> p + 1]

\* the Snow test moved into the Rain/Storm list
generate_road_condition_SnowWet(weather_condition, p) ==
    IF weather_condition \in {Str("Rain"), Str("Storm"), Str("Snow")}
    THEN [v |-> Str("Wet"), p |-> p]
    ELSE IF Below(Raw(p), 5, 100) THEN [v |-> Str("Damaged"), p |-> p + 1]
    ELSE [v |-> Str("Dry"), p |-> p + 1]

generate_road_condition(weather_condition, p) ==
    IF weather_condition = Str("Snow") THEN [v |-> Str("Snowy"), p |-> p]
    ELSE IF weather_condition \in {Str("Rain"), Str("Storm")}
         THEN [v |-> Str("Wet"), p |-> p]
    ELSE IF Below(Raw(p), 5, 100) THEN [v |-> Str("Damaged"), p |-> p + 1]
    ELSE [v |-> Str("Dry"), p |-> p + 1]

Max(a, b) == IF a >= b THEN a ELSE b

\* the final speed is returned without the floor of 3.0
calculate_avg_speed_NoFloor(vehicle_count, weather_condition, road_condition, p) ==
    LET base0 == IF ~IsNum(vehicle_count) THEN Uniform(Raw(p), 6000, 9000)
                 ELSE IF vehicle_count.v > 300000 THEN Uniform(Raw(p), 1000, 3000)
                 ELSE IF vehicle_count.v > 150000 THEN Uniform(Raw(p), 3000, 5000)
                 ELSE Uniform(Raw(p), 5000, 9000)
        base1 == IF weather_condition \in {Str("Rain"), Str("Snow"), Str("Storm")}
                 THEN base0 - 1500
                 ELSE IF weather_condition = Str("Fog") THEN base0 - 1000
                 ELSE base0
        base2 == IF road_condition = Str("Damaged") THEN base1 - 2000 ELSE base1
        final_speed == base2 + Uniform(Raw(p + 1), -1000, 1000)
    IN [v |-> Num(final_speed), p |-> p + 2]

calculate_avg_speed(vehicle_count, weather_condition, road_condition, p) ==
    LET base0 == IF ~IsNum(vehicle_count) THEN Uniform(Raw(p), 6000, 9000)
                 ELSE IF vehicle_count.v > 300000 THEN Uniform(Raw(p), 1000, 3000)
                 ELSE IF vehicle_count.v > 150000 THEN Uniform(Raw(p), 3000, 5000)
                 ELSE Uniform(Raw(p), 5000, 9000)
        base1 == IF weather_condition \in {Str("Rain"), Str("Snow"), Str("Storm")}
                 THEN base0 - 1500
                 ELSE IF weather_condition = Str("Fog") THEN base0 - 1000
                 ELSE base0
        base2 == IF road_condition = Str("Damaged") THEN base1 - 2000 ELSE base1
        final_speed == base2 + Uniform(Raw(p + 1), -1000, 1000)
    IN [v |-> Num(Max(300, final_speed)), p |-> p + 2]

\* a null operand compares as false in place of raising
determine_congestion_NullTolerant(vehicle_count, avg_speed) ==
    IF (IsNum(vehicle_count) /\ vehicle_count.v > 350000)
          \/ (IsNum(avg_speed) /\ avg_speed.v < 1500)
    THEN Str("High")
    ELSE IF (IsNum(vehicle_count) /\ vehicle_count.v > 150000)
               \/ (IsNum(avg_speed) /\ avg_speed.v < 3500)
    THEN Str("Medium")
    ELSE Str("Low")

\* the comparisons raise on a null operand that is reached; except: "Low"
determine_congestion(vehicle_count, avg_speed) ==
    IF ~IsNum(vehicle_count) THEN Str("Low")
    ELSE IF vehicle_count.v > 350000 THEN Str("High")
    ELSE IF ~IsNum(avg_speed) THEN Str("Low")
    ELSE IF avg_speed.v < 1500 THEN Str("High")
    ELSE IF vehicle_count.v > 150000 \/ avg_speed.v < 3500 THEN Str("Medium")
    ELSE Str("Low")

generate_accidents(weather_condition, congestion_level, p) ==
    LET prob == 5 + (IF weather_condition \in Adverse THEN 15 ELSE 0)
                  + (IF congestion_level = Str("High") THEN 10 ELSE 0)
    IN IF Below(Raw(p), prob, 100)
       THEN [v |-> Num(100 * Choice(Raw(p + 1), <<1, 1, 1, 2, 2, 3>>)), p |-> p + 2]
       ELSE [v |-> Num(0), p |-> p + 1]

\* int(x): truncation towards zero
Trunc(x) == IF x >= 0 THEN (x \div 100) * 100 ELSE 0 - (((0 - x) \div 100) * 100)

\* the result is not floored at zero
get_traffic_visibility_NoFloor(weather_vis_value, p) ==
    LET noise == 100 * RandInt(Raw(p), -500, 500)
    IN IF IsNum(weather_vis_value)
       THEN [v |-> Num(Trunc(weather_vis_value.v + noise)), p |-> p + 1]
       ELSE [v |-> Num(1000000), p |-> p + 1]

\* the noise is drawn before the sum is attempted; the sum or int() raises on
\* text and on a missing value, and the except returns 10000
get_traffic_visibility(weather_vis_value, p) ==
    LET noise == 100 * RandInt(Raw(p), -500, 500)
    IN IF IsNum(weather_vis_value)
       THEN [v |-> Num(Max(0, Trunc(weather_vis_value.v + noise))), p |-> p + 1]
       ELSE [v |-> Num(1000000), p |-> p + 1]

\* the literal written with another spelling than the weather script's
TrafficCity_Lower == "london"

\* the literal of the "city" entry of the row
TrafficCity == "London"

\* ------------------------------------ traffic_raw.py: one row of the loop
\* cfg = [n_rows, duplicate_ratio, null_ratio, outlier_ratio]
TrafficColumns == {"traffic_id", "date_time", "city", "area", "vehicle_count",
                   "road_condition", "avg_speed_kmh", "congestion_level",
                   "accident_count", "visibility_m"}

TrafficLocals(p) ==
    [p |-> p, traffic_id |-> Null, date_time |-> Null, city |-> Null, area |-> Null,
     vehicle_count |-> Null, road_condition |-> Null, avg_speed_kmh |-> Null,
     congestion_level |-> Null, accident_count |-> Null, visibility_m |-> Null]

\* the local each statement of the loop body assigns, in the order of the source
TrafficField == <<"date_time", "area", "vehicle_count", "road_condition", "avg_speed_kmh",
                  "congestion_level", "accident_count", "visibility_m", "traffic_id", "city">>
\* the statements whose value passes through with_outliers, and the
\* (outlier_low, outlier_high) each of them passes
TrafficNumeric == {3, 5, 7, 8}
TrafficBand(k) ==
    CASE k = 3 -> <<2000000, 3000000>>
      [] k = 5 -> <<-100, 50000>>
      [] k = 7 -> <<2000, 5000>>
      [] k = 8 -> <<5000000, 12000000>>

\* the value the k-th statement derives from the weather row and the locals
\* st, before with_outliers and maybe_null are applied to it
TrafficHelper(k, i, weather_row, cfg, st) ==
    CASE k = 1 -> [v |-> weather_row.date_time, p |-> st.p]
      [] k = 2 -> generate_area(st.p)
      [] k = 3 -> generate_vehicle_count(st.date_time, st.p)
      [] k = 4 -> generate_road_condition(weather_row.weather_condition, st.p)
      [] k = 5 -> calculate_avg_speed(st.vehicle_count, weather_row.weather_condition,
                                      st.road_condition, st.p)
      [] k = 6 -> [v |-> determine_congestion(st.vehicle_count, st.avg_speed_kmh), p |-> st.p]
      [] k = 7 -> generate_accidents(weather_row.weather_condition, st.congestion_level, st.p)
      [] k = 8 -> get_traffic_visibility(weather_row.visibility_m, st.p)
      [] k = 9 -> [v |-> Num(9001 + i), p |-> st.p]
      [] k = 10 -> [v |-> Str(TrafficCity), p |-> st.p]

\* the k-th statement of the loop body, in the order of the source; the
\* timestamp (k = 1) is stored as it is
TrafficStatement(k, i, weather_row, cfg, st) ==
    Store(st, TrafficField[k],
          IF k = 1 THEN TrafficHelper(k, i, weather_row, cfg, st)
          ELSE IF k \in TrafficNumeric
          THEN Inject(TrafficHelper(k, i, weather_row, cfg, st),
                      TrafficBand(k)[1], TrafficBand(k)[2], cfg)
          ELSE NullOnly(TrafficHelper(k, i, weather_row, cfg, st), cfg))

RECURSIVE TrafficStatements(_, _, _, _, _)
\* the statements k..10 of the loop body run on the locals st
TrafficStatements(k, i, weather_row, cfg, st) ==
    IF k > 10 THEN st
    ELSE CHOOSE r \in {TrafficStatements(k + 1, i, weather_row, cfg, s2) :
                         s2 \in {TrafficStatement(k, i, weather_row, cfg, st)}} : TRUE

\* the row dict of iteration i and the stream position after it
TrafficRow(i, weather_row, cfg, p) ==
    CHOOSE r \in
        {[row |-> [c \in TrafficColumns |-> st[c]], p |-> st.p] :
            st \in {TrafficStatements(1, i, weather_row, cfg, TrafficLocals(p))}} : TRUE

RECURSIVE TrafficRows_Reversed(_, _, _, _, _)
\* the weather row is taken from the other end of the table
TrafficRows_Reversed(i, weather_df, cfg, p, rows) ==
    IF i >= Len(weather_df) THEN [rows |-> rows, p |-> p]
    ELSE CHOOSE res \in
            UNION {{TrafficRows_Reversed(i + 1, weather_df, cfg, r.p % P, acc) :
                       acc \in {Append(rows, r.row)}} :
                      r \in {TrafficRow(i, weather_df[Len(weather_df) - i], cfg, p)}} : TRUE

RECURSIVE TrafficRows(_, _, _, _, _)
\* limit = len(weather_df); for i in range(limit): rows.append(row)
TrafficRows(i, weather_df, cfg, p, rows) ==
    IF i >= Len(weather_df) THEN [rows |-> rows, p |-> p]
    ELSE CHOOSE res \in
            UNION {{TrafficRows(i + 1, weather_df, cfg, r.p % P, acc) :
                       acc \in {Append(rows, r.row)}} :
                      r \in {TrafficRow(i, weather_df[i + 1], cfg, p)}} : TRUE

\* --------------------------------------------- generate_traffic_dataset
\* `body` of the result is the table before the duplicate tail is appended.
generate_traffic_dataset(weather_df, cfg, rng) ==
    CHOOSE res \in
        {WithDuplicates(body, DupCount(cfg.n_rows, cfg.duplicate_ratio), SeedNp(43, rng.np)) :
            body \in {TrafficRows(0, weather_df, cfg, SeedPy(43, rng.py), <<>>)}} : TRUE

\* ------------------------------------------------- merge_datasets.py state
VARIABLES
    silverW,      \* s3://silver/weather_cleaned.parquet
    silverT,      \* s3://silver/traffic_cleaned.parquet
    goldMerged,   \* s3://gold/merged_data/merged_data.parquet
    goldCheck,    \* whether s3://gold/merged_data.parquet exists
    mpc,          \* position of merge_datasets.py
    m_weather,    \* weather_df inside merge_data
    m_traffic,    \* traffic_df inside merge_data
    merged_df,    \* merged_df inside merge_data
    caught,       \* the step whose exception the except clause printed, or "none"
    goldWrites,   \* merged_df.to_parquet calls made
    mainReads     \* pd.read_parquet calls made by the main block

mergeVars == <<silverW, silverT, goldMerged, goldCheck, mpc, m_weather, m_traffic,
               merged_df, caught, goldWrites, mainReads>>

\* ------------------------------------------------- calls of single helpers
VARIABLES
    fpc,          \* "idle", or "called" while the result of a call is looked at
    call          \* the arguments and the result of the call

fnVars == <<fpc, call>>

\* ===================================================== generation pipeline
\* The two generator scripts, run one at a time by the operator.  Every
\* launch is a new interpreter whose generators start in an arbitrary state.
VARIABLES
    wcfg,         \* configuration of generate_weather_dataset
    tcfg,         \* configuration of generate_traffic_dataset
    rng,          \* state of the two shared generators of the running interpreter
    wpc,          \* position of weather_raw.py
    wruns,        \* launches of weather_raw.py
    wCur,         \* result of the latest generate_weather_dataset call
    wPrev,        \* result of the call before it
    weatherFile,  \* ../data/raw/weather_raw.csv
    tpc,          \* position of traffic_raw.py
    truns,        \* launches of traffic_raw.py
    weather_in,   \* weather_df loaded by traffic_raw.py
    tCur,         \* result of the latest generate_traffic_dataset call
    tPrev,        \* result of the call before it
    trafficFile   \* ../data/raw/traffic_raw.csv

genVars == <<tape, nptape, wcfg, tcfg, rng, wpc, wruns, wCur, wPrev, weatherFile,
             tpc, truns, weather_in, tCur, tPrev, trafficFile>>

DupRatios == {50, 100}
WeatherCfgs == [n_rows : 1..MaxRows, duplicate_ratio : DupRatios, null_ratio : {10},
                outlier_ratio : {10}, bad_format_ratio : {1}]
TrafficCfgs == [n_rows : 1..MaxRows, duplicate_ratio : DupRatios, null_ratio : {10},
                outlier_ratio : {10}]

NoFile == [exists |-> FALSE, rows |-> <<>>]
NoWeatherRun == [ran |-> FALSE, raised |-> FALSE, df |-> <<>>]
NoTrafficRun == [ran |-> FALSE, raised |-> FALSE, input |-> <<>>, body |-> <<>>, df |-> <<>>]
WIdle == {"idle", "saved"}
TIdle == {"idle", "saved", "aborted", "raised"}

GenInit ==
    /\ \E a \in Mults, c \in Incrs :
          tape = LcgTape(a, c, P) /\ nptape = LcgTape(c, a, NP)
    /\ wcfg \in WeatherCfgs
    /\ tcfg \in TrafficCfgs
    /\ rng = [py |-> 0, np |-> 0]
    /\ wpc = "idle" /\ wruns = 0 /\ wCur = NoWeatherRun /\ wPrev = NoWeatherRun
    /\ weatherFile = NoFile
    /\ tpc = "idle" /\ truns = 0 /\ weather_in = <<>>
    /\ tCur = NoTrafficRun /\ tPrev = NoTrafficRun
    /\ trafficFile = NoFile

\* python weather_raw.py
WeatherLaunch ==
    /\ wpc \in WIdle /\ tpc \in TIdle /\ wruns < MaxRuns
    /\ wpc' = "start" /\ wruns' = wruns + 1
    /\ rng' \in RngStates
    /\ UNCHANGED <<tape, nptape, wcfg, tcfg, wCur, wPrev, weatherFile,
                   tpc, truns, weather_in, tCur, tPrev, trafficFile>>
    /\ UNCHANGED mergeVars
    /\ UNCHANGED fnVars

\* weather_df = generate_weather_dataset()
WeatherGenerate ==
    /\ wpc = "start"
    /\ \E res \in {generate_weather_dataset(wcfg, rng)} :
          /\ wCur' = [ran |-> TRUE, raised |-> res.raised, df |-> res.df]
          /\ wPrev' = wCur
          /\ rng' = res.rng
          /\ wpc' = IF res.raised THEN "raised" ELSE "generated"
    /\ UNCHANGED <<tape, nptape, wcfg, tcfg, wruns, weatherFile,
                   tpc, truns, weather_in, tCur, tPrev, trafficFile>>
    /\ UNCHANGED mergeVars
    /\ UNCHANGED fnVars

\* weather_df.to_csv(...)
WeatherSave ==
    /\ wpc = "generated"
    /\ weatherFile' = [exists |-> TRUE, rows |-> wCur.df]
    /\ wpc' = "saved"
    /\ UNCHANGED <<tape, nptape, wcfg, tcfg, rng, wruns, wCur, wPrev,
                   tpc, truns, weather_in, tCur, tPrev, trafficFile>>
    /\ UNCHANGED mergeVars
    /\ UNCHANGED fnVars

\* python traffic_raw.py
TrafficLaunch ==
    /\ tpc \in TIdle /\ wpc \in WIdle /\ truns < MaxRuns
    /\ tpc' = "start" /\ truns' = truns + 1
    /\ rng' \in RngStates
    /\ UNCHANGED <<tape, nptape, wcfg, tcfg, wpc, wruns, wCur, wPrev, weatherFile,
                   weather_in, tCur, tPrev, trafficFile>>
    /\ UNCHANGED mergeVars
    /\ UNCHANGED fnVars

\* os.path.exists(weather_file) holds: weather_df = pd.read_csv(weather_file);
\* a file without a header line makes read_csv raise EmptyDataError
TrafficLoad ==
    /\ tpc = "start" /\ weatherFile.exists
    /\ IF weatherFile.rows = <<>>
       THEN tpc' = "raised" /\ UNCHANGED weather_in
       ELSE tpc' = "loaded" /\ weather_in' = ReadCsv(weatherFile.rows)
    /\ UNCHANGED <<tape, nptape, wcfg, tcfg, rng, wpc, wruns, wCur, wPrev, weatherFile,
                   truns, tCur, tPrev, trafficFile>>
    /\ UNCHANGED mergeVars
    /\ UNCHANGED fnVars

\* the missing file is generated in memory and the run goes on
TrafficAbort_Fallback ==
    /\ tpc = "start" /\ ~weatherFile.exists
    /\ weather_in' = ReadCsv(generate_weather_dataset(wcfg, rng).df)
    /\ tpc' = "loaded"
    /\ UNCHANGED <<tape, nptape, wcfg, tcfg, rng, wpc, wruns, wCur, wPrev, weatherFile,
                   truns, tCur, tPrev, trafficFile>>
    /\ UNCHANGED mergeVars
    /\ UNCHANGED fnVars

\* else: print("... not found. Please run weather_raw.py first."); exit()
TrafficAbort ==
    /\ tpc = "start" /\ ~weatherFile.exists
    /\ tpc' = "aborted"
    /\ UNCHANGED <<tape, nptape, wcfg, tcfg, rng, wpc, wruns, wCur, wPrev, weatherFile,
                   truns, weather_in, tCur, tPrev, trafficFile>>
    /\ UNCHANGED mergeVars
    /\ UNCHANGED fnVars

\* traffic_df = generate_traffic_dataset(weather_df)
TrafficGenerate ==
    /\ tpc = "loaded"
    /\ \E res \in {generate_traffic_dataset(weather_in, tcfg, rng)} :
          /\ tCur' = [ran |-> TRUE, raised |-> res.raised, input |-> weather_in,
                      body |-> res.body, df |-> res.df]
          /\ tPrev' = tCur
          /\ rng' = res.rng
          /\ tpc' = IF res.raised THEN "raised" ELSE "generated"
    /\ UNCHANGED <<tape, nptape, wcfg, tcfg, wpc, wruns, wCur, wPrev, weatherFile,
                   truns, weather_in, trafficFile>>
    /\ UNCHANGED mergeVars
    /\ UNCHANGED fnVars

\* traffic_df.to_csv(...)
TrafficSave ==
    /\ tpc = "generated"
    /\ trafficFile' = [exists |-> TRUE, rows |-> tCur.df]
    /\ tpc' = "saved"
    /\ UNCHANGED <<tape, nptape, wcfg, tcfg, rng, wpc, wruns, wCur, wPrev, weatherFile,
                   truns, weather_in, tCur, tPrev>>
    /\ UNCHANGED mergeVars
    /\ UNCHANGED fnVars


\* ========================================================= merge_datasets.py
MaxWeatherRows == 2     \* rows of the cleaned weather table
MaxTrafficRows == 2     \* rows of the cleaned traffic table

\* a parsed timestamp as a datetime64 value (the year is always 2024)
Dt(dt) == [k |-> "dt", v |-> (dt.month * 100 + dt.day) * 100 + dt.hour, s |-> ""]

\* the (date_time, city) cells the cleaned tables are drawn from
SilverKeys ==
    {<<Ts(0, "ymd"), Str("London")>>, <<Ts(0, "dmy"), Str("London")>>,
     <<Ts(2, "ymd"), Str("London")>>, <<Ts(0, "ymd"), Null>>,
     <<Null, Str("London")>>, <<Str("Unknown"), Str("London")>>}

SilverWeatherRow(i, key) ==
    [weather_id |-> Num(5001 + i), date_time |-> key[1], city |-> key[2],
     visibility_m |-> Num(500000 + i)]
SilverTrafficRow(i, key) ==
    [traffic_id |-> Num(9001 + i), date_time |-> key[1], city |-> key[2],
     visibility_m |-> Num(480000 + i)]
KeyLists(n) == UNION {[1..m -> SilverKeys] : m \in 0..n}
SilverWeatherTables ==
    {[i \in 1..Len(ks) |-> SilverWeatherRow(i - 1, ks[i])] : ks \in KeyLists(MaxWeatherRows)}
SilverTrafficTables ==
    {[i \in 1..Len(ks) |-> SilverTrafficRow(i - 1, ks[i])] : ks \in KeyLists(MaxTrafficRows)}

\* pd.to_datetime(series) without errors="coerce": text that is no date raises
Unparseable(df) == \E i \in 1..Len(df) : df[i].date_time.k = "str"
\* more than one textual format in the column
MixedFormats(df) ==
    \E i, j \in 1..Len(df) :
        /\ df[i].date_time.k = "ts" /\ df[j].date_time.k = "ts"
        /\ df[i].date_time.s # df[j].date_time.s
CoerceCell(c) == IF c.k = "ts" THEN Dt(to_datetime(c)) ELSE Null
\* df['date_time'] = pd.to_datetime(df['date_time'])
CoerceDates(df) ==
    [i \in 1..Len(df) |-> [df[i] EXCEPT !.date_time = CoerceCell(df[i].date_time)]]

\* df.rename(columns={'visibility_m': to})
RenameWeather(df) ==
    [i \in 1..Len(df) |->
        [weather_id |-> df[i].weather_id, date_time |-> df[i].date_time,
         city |-> df[i].city, visibility_weather |-> df[i].visibility_m]]
RenameTraffic(df) ==
    [i \in 1..Len(df) |->
        [traffic_id |-> df[i].traffic_id, date_time |-> df[i].date_time,
         city |-> df[i].city, visibility_traffic |-> df[i].visibility_m]]

\* the join key; a missing value matches a missing value in pd.merge
KeyOf(row) == <<row.date_time, row.city>>
MergedRow(t, w) ==
    [traffic_id |-> t.traffic_id, date_time |-> t.date_time, city |-> t.city,
     visibility_traffic |-> t.visibility_traffic,
     weather_id |-> w.weather_id, visibility_weather |-> w.visibility_weather]

RECURSIVE MatchesOf_DateOnly(_, _, _)
\* the join made on date_time alone
MatchesOf_DateOnly(t, right, j) ==
    IF j > Len(right) THEN <<>>
    ELSE (IF right[j].date_time = t.date_time THEN <<MergedRow(t, right[j])>> ELSE <<>>)
         \o MatchesOf_DateOnly(t, right, j + 1)

RECURSIVE MatchesOf(_, _, _)
\* the rows of `right` from index j on whose key is the key of t, joined with t
MatchesOf(t, right, j) ==
    IF j > Len(right) THEN <<>>
    ELSE (IF KeyOf(right[j]) = KeyOf(t) THEN <<MergedRow(t, right[j])>> ELSE <<>>)
         \o MatchesOf(t, right, j + 1)

\* a left row without a match is kept, with the columns of the right side missing
UnmatchedRow(t) ==
    [traffic_id |-> t.traffic_id, date_time |-> t.date_time, city |-> t.city,
     visibility_traffic |-> t.visibility_traffic,
     weather_id |-> Null, visibility_weather |-> Null]

RECURSIVE InnerJoin_Left(_, _, _)
\* how='left' in place of how='inner'
InnerJoin_Left(left, right, i) ==
    IF i > Len(left) THEN <<>>
    ELSE (IF MatchesOf(left[i], right, 1) = <<>> THEN <<UnmatchedRow(left[i])>>
          ELSE MatchesOf(left[i], right, 1))
         \o InnerJoin_Left(left, right, i + 1)

RECURSIVE InnerJoin(_, _, _)
\* pd.merge(left, right, on=['date_time', 'city'], how='inner') from index i of left
InnerJoin(left, right, i) ==
    IF i > Len(left) THEN <<>>
    ELSE MatchesOf(left[i], right, 1) \o InnerJoin(left, right, i + 1)

SilverFiles(tables) == {NoFile} \cup {[exists |-> TRUE, rows |-> t] : t \in tables}

MergeInit ==
    /\ silverW \in SilverFiles(SilverWeatherTables)
    /\ silverT \in SilverFiles(SilverTrafficTables)
    /\ goldMerged = NoFile
    /\ goldCheck \in BOOLEAN
    /\ mpc = "start"
    /\ m_weather = <<>> /\ m_traffic = <<>> /\ merged_df = <<>>
    /\ caught = "none"
    /\ goldWrites = 0 /\ mainReads = 0

\* 2. pd.read_parquet of the two silver files; a missing file raises
MergeRead ==
    /\ mpc = "start"
    /\ IF silverW.exists /\ silverT.exists
       THEN /\ m_weather' = silverW.rows /\ m_traffic' = silverT.rows
            /\ mpc' = "read" /\ UNCHANGED caught
       ELSE /\ caught' = "read" /\ mpc' = "returned"
            /\ UNCHANGED <<m_weather, m_traffic>>
    /\ UNCHANGED <<silverW, silverT, goldMerged, goldCheck, merged_df, goldWrites, mainReads>>
    /\ UNCHANGED genVars
    /\ UNCHANGED fnVars

\* 3. pd.to_datetime on both tables, then the two renames.  Whether a column
\* of several formats parses element by element or raises depends on the
\* installed pandas.
MergeCoerce ==
    /\ mpc = "read"
    /\ \E strict \in BOOLEAN :
         IF \/ Unparseable(m_weather) \/ Unparseable(m_traffic)
            \/ (strict /\ (MixedFormats(m_weather) \/ MixedFormats(m_traffic)))
         THEN /\ caught' = "coerce" /\ mpc' = "returned"
              /\ UNCHANGED <<m_weather, m_traffic>>
         ELSE /\ m_weather' = RenameWeather(CoerceDates(m_weather))
              /\ m_traffic' = RenameTraffic(CoerceDates(m_traffic))
              /\ mpc' = "coerced" /\ UNCHANGED caught
    /\ UNCHANGED <<silverW, silverT, goldMerged, goldCheck, merged_df, goldWrites, mainReads>>
    /\ UNCHANGED genVars
    /\ UNCHANGED fnVars

\* 4. merged_df = pd.merge(traffic_df, weather_df, on=[...], how='inner')
MergeJoin ==
    /\ mpc = "coerced"
    /\ merged_df' = InnerJoin(m_traffic, m_weather, 1)
    /\ mpc' = "merged"
    /\ UNCHANGED <<silverW, silverT, goldMerged, goldCheck, m_weather, m_traffic,
                   caught, goldWrites, mainReads>>
    /\ UNCHANGED genVars
    /\ UNCHANGED fnVars

\* the validation left out: an empty result goes on to be saved
MergeValidate_NoCheck ==
    /\ mpc = "merged"
    /\ mpc' = "validated" /\ UNCHANGED caught
    /\ UNCHANGED <<silverW, silverT, goldMerged, goldCheck, m_weather, m_traffic,
                   merged_df, goldWrites, mainReads>>
    /\ UNCHANGED genVars
    /\ UNCHANGED fnVars

\* 5. if len(merged_df) == 0: raise ValueError(...), which the except of
\* merge_data catches and prints
MergeValidate ==
    /\ mpc = "merged"
    /\ IF Len(merged_df) = 0
       THEN caught' = "validate" /\ mpc' = "returned"
       ELSE mpc' = "validated" /\ UNCHANGED caught
    /\ UNCHANGED <<silverW, silverT, goldMerged, goldCheck, m_weather, m_traffic,
                   merged_df, goldWrites, mainReads>>
    /\ UNCHANGED genVars
    /\ UNCHANGED fnVars

\* 6. merged_df.to_parquet(output_path, ...)
MergeSave ==
    /\ mpc = "validated"
    /\ goldMerged' = [exists |-> TRUE, rows |-> merged_df]
    /\ goldWrites' = goldWrites + 1
    /\ mpc' = "returned"
    /\ UNCHANGED <<silverW, silverT, goldCheck, m_weather, m_traffic, merged_df,
                   caught, mainReads>>
    /\ UNCHANGED genVars
    /\ UNCHANGED fnVars

\* main block after merge_data(): df = pd.read_parquet("s3://gold/merged_data.parquet")
MainRead ==
    /\ mpc = "returned"
    /\ mainReads' = mainReads + 1
    /\ mpc' = IF goldCheck THEN "done" ELSE "crashed"
    /\ UNCHANGED <<silverW, silverT, goldMerged, goldCheck, m_weather, m_traffic,
                   merged_df, caught, goldWrites>>
    /\ UNCHANGED genVars
    /\ UNCHANGED fnVars


\* ==================================================== calls of the helpers
\* The nested helpers called on their own, on arguments drawn from small sets
\* and from every position of the `random` stream.
NoCall == [fn |-> "none"]

\* no helper is being called
FnIdle == fpc = "idle" /\ call = NoCall

Positions == 0..(P - 1)
Ratios == {0, 10, 100}

\* with_outliers(normal_value, outlier_low, outlier_high)
OutlierValues == {Num(0), Num(15000), Str("unknown")}
OutlierBands == {<<10000, 20000>>, <<-100, 50000>>}
CallWithOutliers ==
    /\ fpc = "idle"
    /\ \E value \in OutlierValues, band \in OutlierBands, ratio \in Ratios, p \in Positions :
          call' = [fn |-> "with_outliers", value |-> value, lo |-> band[1], hi |-> band[2],
                   outlier_ratio |-> ratio, p |-> p,
                   ret |-> with_outliers(value, band[1], band[2], ratio, p)]
    /\ fpc' = "called"
    /\ UNCHANGED genVars
    /\ UNCHANGED mergeVars

\* ---- one row of each generator, statement by statement
\* what the k-th statement of the weather loop body does on the locals st:
\* `clean` is the value its helper returns, `fromClean` the value the helper
\* returns at the same stream position on the locals' values before
\* injection (`pre`), `triggered` whether with_outliers took its outlier branch
WeatherTraceEntry(k, i, cfg, st, pre) ==
    CHOOSE e \in
        {[k |-> k, clean |-> h.v,
          fromClean |-> WeatherHelper(k, i, cfg, [pre EXCEPT !.p = st.p]).v,
          triggered |-> /\ k \in WeatherNumeric
                        /\ with_outliers(h.v, WeatherBand(k)[1], WeatherBand(k)[2],
                                         cfg.outlier_ratio, h.p).p = h.p + 3] :
            h \in {WeatherHelper(k, i, cfg, st)}} : TRUE

RECURSIVE WeatherTrace(_, _, _, _, _, _)
\* the statements k..11 of the weather loop body, with what each of them did
WeatherTrace(k, i, cfg, st, pre, tr) ==
    IF k > 11 THEN [st |-> st, tr |-> tr]
    ELSE CHOOSE r \in
            UNION {{WeatherTrace(k + 1, i, cfg, s2,
                                 [pre EXCEPT ![WeatherField[k]] = e.clean], Append(tr, e)) :
                       s2 \in {WeatherStatement(k, i, cfg, st)}} :
                      e \in {WeatherTraceEntry(k, i, cfg, st, pre)}} : TRUE

TrafficTraceEntry(k, i, weather_row, cfg, st) ==
    CHOOSE e \in
        {[k |-> k, clean |-> h.v,
          triggered |-> /\ k \in TrafficNumeric
                        /\ with_outliers(h.v, TrafficBand(k)[1], TrafficBand(k)[2],
                                         cfg.outlier_ratio, h.p).p = h.p + 3] :
            h \in {TrafficHelper(k, i, weather_row, cfg, st)}} : TRUE

RECURSIVE TrafficTrace(_, _, _, _, _, _)
\* the statements k..10 of the traffic loop body, with what each of them did
TrafficTrace(k, i, weather_row, cfg, st, tr) ==
    IF k > 10 THEN [st |-> st, tr |-> tr]
    ELSE CHOOSE r \in
            UNION {{TrafficTrace(k + 1, i, weather_row, cfg, s2, Append(tr, e)) :
                       s2 \in {TrafficStatement(k, i, weather_row, cfg, st)}} :
                      e \in {TrafficTraceEntry(k, i, weather_row, cfg, st)}} : TRUE

\* iterations of the loop: hours 0, 8 and 12 of the first day
RowIndexes == {0, 4, 6}
RowCfgs == [n_rows : {1}, duplicate_ratio : {50}, null_ratio : {0, 10},
            outlier_ratio : Ratios, bad_format_ratio : {1}]

\* iteration i of the weather loop, then iteration i of the traffic loop on
\* the row it produced
CallRows ==
    /\ fpc = "idle"
    /\ \E i \in RowIndexes, cfg \in RowCfgs, p \in Positions :
          \E w \in {WeatherTrace(1, i, cfg, WeatherLocals(p), WeatherLocals(p), <<>>)} :
             \E t \in {TrafficTrace(1, i, w.st, cfg, TrafficLocals(w.st.p % P), <<>>)} :
                call' = [fn |-> "rows", i |-> i, cfg |-> cfg, p |-> p,
                         weather |-> w.st, wtrace |-> w.tr,
                         traffic |-> t.st, ttrace |-> t.tr]
    /\ fpc' = "called"
    /\ UNCHANGED genVars
    /\ UNCHANGED mergeVars

\* get_traffic_visibility(weather_vis_value): whole and fractional metres,
\* missing values, sentinel texts, and a number read back from a text column
VisibilityValues == {Num(5000), Num(500000), Num(4997550), Num(12001225),
                     Null, Str("error"), NumText(800000)}
CallTrafficVisibility ==
    /\ fpc = "idle"
    /\ \E v \in VisibilityValues, p \in Positions :
          call' = [fn |-> "get_traffic_visibility", weather_vis_value |-> v, p |-> p,
                   ret |-> get_traffic_visibility(v, p)]
    /\ fpc' = "called"
    /\ UNCHANGED genVars
    /\ UNCHANGED mergeVars

\* generate_weather_condition(rain_mm, temperature_c) around its thresholds
RainValues == {Null, Num(0), Num(500), Num(999), Num(1000), Num(2499), Num(2500),
               Num(4999), Num(5000), Num(8000)}
TemperatureValues == {Null, Num(-500), Num(500), Num(501), Num(3000)}
CallWeatherCondition ==
    /\ fpc = "idle"
    /\ \E rain_mm \in RainValues, temperature_c \in TemperatureValues, p \in Positions :
          call' = [fn |-> "generate_weather_condition", rain_mm |-> rain_mm,
                   temperature_c |-> temperature_c, p |-> p,
                   ret |-> generate_weather_condition(rain_mm, temperature_c, p)]
    /\ fpc' = "called"
    /\ UNCHANGED genVars
    /\ UNCHANGED mergeVars

\* determine_congestion(vehicle_count, avg_speed) around its thresholds
VehicleCounts == {Null, Num(100000), Num(150000), Num(150100), Num(300000), Num(300100),
                  Num(350000), Num(350100), Num(2000000)}
AvgSpeeds == {Null, Num(300), Num(1499), Num(1500), Num(3499), Num(3500), Num(9000)}
CallCongestion ==
    /\ fpc = "idle"
    /\ \E vehicle_count \in VehicleCounts, avg_speed \in AvgSpeeds :
          call' = [fn |-> "determine_congestion", vehicle_count |-> vehicle_count,
                   avg_speed |-> avg_speed,
                   ret |-> determine_congestion(vehicle_count, avg_speed)]
    /\ fpc' = "called"
    /\ UNCHANGED genVars
    /\ UNCHANGED mergeVars

\* calculate_avg_speed(vehicle_count, weather_condition, road_condition)
SpeedConditions == {Null, Str("Clear"), Str("Fog"), Str("Rain")}
RoadConditions == {Null, Str("Dry"), Str("Damaged")}
CallAvgSpeed ==
    /\ fpc = "idle"
    /\ \E vehicle_count \in VehicleCounts, wc \in SpeedConditions, rc \in RoadConditions,
          p \in Positions :
          call' = [fn |-> "calculate_avg_speed", vehicle_count |-> vehicle_count,
                   weather_condition |-> wc, road_condition |-> rc, p |-> p,
                   ret |-> calculate_avg_speed(vehicle_count, wc, rc, p)]
    /\ fpc' = "called"
    /\ UNCHANGED genVars
    /\ UNCHANGED mergeVars

\* ---- generate_traffic_dataset on two weather tables that differ in one row
IsoRow(dt, wc, vis) ==
    [weather_id |-> Num(5001), date_time |-> dt, city |-> Str("London"),
     season |-> Str("Winter"), temperature_c |-> Num(500), humidity |-> Num(5000),
     rain_mm |-> Num(0), weather_condition |-> wc, wind_speed_kmh |-> Num(1000),
     visibility_m |-> vis, air_pressure_hpa |-> Num(101000)]
IsoRows ==
    {IsoRow(dt, wc, vis) : dt \in {Ts(0, "ymd"), Str("Unknown")},
                           wc \in {Str("Clear"), Str("Snow")},
                           vis \in {Num(800000), Str("error")}}
IsoCfg == [n_rows |-> 1, duplicate_ratio |-> 50, null_ratio |-> 10, outlier_ratio |-> 10]

\* the rows of the loop for table a and for table b, which is a with row i replaced
CallIsolation ==
    /\ fpc = "idle"
    /\ \E a \in [1..MaxRows -> IsoRows], i \in 1..MaxRows, r \in IsoRows :
          /\ r # a[i]
          /\ \E b \in {[a EXCEPT ![i] = r]} :
                call' = [fn |-> "isolation", a |-> a, b |-> b, i |-> i,
                         rowsA |-> TrafficRows(0, a, IsoCfg, SeedPy(43, 0), <<>>).rows,
                         rowsB |-> TrafficRows(0, b, IsoCfg, SeedPy(43, 0), <<>>).rows]
    /\ fpc' = "called"
    /\ UNCHANGED genVars
    /\ UNCHANGED mergeVars

\* the result has been looked at
FnReturn ==
    /\ fpc = "called"
    /\ fpc' = "idle" /\ call' = NoCall
    /\ UNCHANGED genVars
    /\ UNCHANGED mergeVars


\* ============================================================ specifications
vars == <<tape, nptape, wcfg, tcfg, rng, wpc, wruns, wCur, wPrev, weatherFile,
          tpc, truns, weather_in, tCur, tPrev, trafficFile,
          silverW, silverT, goldMerged, goldCheck, mpc, m_weather, m_traffic,
          merged_df, caught, goldWrites, mainReads, fpc, call>>

\* the merge script is not running
MergeIdle ==
    /\ silverW = NoFile /\ silverT = NoFile /\ goldMerged = NoFile
    /\ goldCheck = FALSE /\ mpc = "idle"
    /\ m_weather = <<>> /\ m_traffic = <<>> /\ merged_df = <<>>
    /\ caught = "none" /\ goldWrites = 0 /\ mainReads = 0

\* the generator scripts are not running
GenIdle ==
    /\ tape = LcgTape(5, 1, P) /\ nptape = LcgTape(1, 5, NP)
    /\ wcfg = CHOOSE c \in WeatherCfgs : TRUE
    /\ tcfg = CHOOSE c \in TrafficCfgs : TRUE
    /\ rng = [py |-> 0, np |-> 0]
    /\ wpc = "idle" /\ wruns = 0 /\ wCur = NoWeatherRun /\ wPrev = NoWeatherRun
    /\ weatherFile = NoFile
    /\ tpc = "idle" /\ truns = 0 /\ weather_in = <<>>
    /\ tCur = NoTrafficRun /\ tPrev = NoTrafficRun
    /\ trafficFile = NoFile

\* the generation pipeline: weather_raw.py and traffic_raw.py
Init == GenInit /\ MergeIdle /\ FnIdle
Next ==
    \/ WeatherLaunch \/ WeatherGenerate \/ WeatherSave
    \/ TrafficLaunch \/ TrafficLoad \/ TrafficAbort \/ TrafficGenerate \/ TrafficSave
Spec == Init /\ [][Next]_vars

\* the merge step: merge_datasets.py over the cleaned tables
InitMerge == GenIdle /\ MergeInit /\ FnIdle
NextMerge ==
    \/ MergeRead \/ MergeCoerce \/ MergeJoin \/ MergeValidate \/ MergeSave \/ MainRead
SpecMerge == InitMerge /\ [][NextMerge]_vars

\* the helpers called on their own
InitFn ==
    /\ \E a \in Mults, c \in Incrs :
          tape = LcgTape(a, c, P) /\ nptape = LcgTape(c, a, NP)
    /\ wcfg = CHOOSE c \in WeatherCfgs : TRUE
    /\ tcfg = CHOOSE c \in TrafficCfgs : TRUE
    /\ rng = [py |-> 0, np |-> 0]
    /\ wpc = "idle" /\ wruns = 0 /\ wCur = NoWeatherRun /\ wPrev = NoWeatherRun
    /\ weatherFile = NoFile
    /\ tpc = "idle" /\ truns = 0 /\ weather_in = <<>>
    /\ tCur = NoTrafficRun /\ tPrev = NoTrafficRun
    /\ trafficFile = NoFile
    /\ MergeIdle
    /\ FnIdle
NextFn ==
    \/ CallWithOutliers
    \/ CallRows
    \/ CallTrafficVisibility
    \/ CallIsolation
    \/ CallWeatherCondition \/ CallCongestion \/ CallAvgSpeed
    \/ FnReturn
SpecFn == InitFn /\ [][NextFn]_vars

\* ================================================================== claims
Min(a, b) == IF a <= b THEN a ELSE b
PairedRows == 1..Len(tCur.body)

\* C1 (as stated): both generators return n + floor(n * duplicate_ratio) rows,
\* n being the requested row count for the weather generator and the length
\* of the weather table for the traffic generator.
C1_RowCountLaw ==
    /\ wCur.ran =>
          /\ ~wCur.raised
          /\ Len(wCur.df) = wcfg.n_rows + DupCount(wcfg.n_rows, wcfg.duplicate_ratio)
    /\ tCur.ran =>
          /\ ~tCur.raised
          /\ Len(tCur.df) = Len(tCur.input) + DupCount(Len(tCur.input), tcfg.duplicate_ratio)

\* C2: two calls of a generator with the same configuration (and, for the
\* traffic generator, the same weather table) return the same table, whatever
\* state the shared generators were in when each call started.
C2_Determinism ==
    /\ (wPrev.ran /\ wCur.ran) => (wPrev.raised = wCur.raised /\ wPrev.df = wCur.df)
    /\ (tPrev.ran /\ tCur.ran /\ tPrev.input = tCur.input) =>
          (tPrev.raised = tCur.raised /\ tPrev.body = tCur.body /\ tPrev.df = tCur.df)

C2_Witness ==
    /\ wruns = 2 /\ wPrev.ran /\ wCur.ran /\ Len(wCur.df) > wcfg.n_rows
    /\ truns = 2 /\ tPrev.ran /\ tCur.ran /\ tPrev.input = tCur.input
    /\ ~tCur.raised /\ Len(tCur.df) > Len(tCur.input)

\* C3: the traffic table holds, before its duplicate tail, one row per weather
\* row in the same order, and row i carries the timestamp of weather row i
\* unchanged.
C3_PositionalPairing ==
    tCur.ran =>
       /\ Len(tCur.body) = Len(tCur.input)
       /\ \A i \in PairedRows :
             /\ tCur.body[i].date_time = tCur.input[i].date_time
             /\ tCur.body[i].traffic_id \in {Null, Num(9001 + (i - 1))}
       /\ ~tCur.raised =>
             /\ Len(tCur.df) >= Len(tCur.input)
             /\ SubSeq(tCur.df, 1, Len(tCur.input)) = tCur.body

C3_Witness ==
    /\ tCur.ran /\ ~tCur.raised
    /\ Len(tCur.input) >= 2
    /\ tCur.input[1].date_time # tCur.input[2].date_time
    /\ \E i \in PairedRows : tCur.input[i].date_time.k # "ts"
    /\ Len(tCur.df) > Len(tCur.input)

\* C4 (as stated): the city of traffic row i equals the city of weather row i.
C4_CityCopied ==
    tCur.ran => \A i \in PairedRows : tCur.body[i].city = tCur.input[i].city

\* C4 (amended): the city of traffic row i is "London" or null, nulled
\* independently of the weather row; the two cities are equal whenever neither
\* is null, and the timestamp half of the key always agrees.
C4_CityLondonOrNull ==
    tCur.ran =>
       \A i \in PairedRows :
          /\ tCur.body[i].city \in {Null, Str("London")}
          /\ tCur.body[i].date_time = tCur.input[i].date_time
          /\ (~IsNull(tCur.body[i].city) /\ ~IsNull(tCur.input[i].city)) =>
                tCur.body[i].city = tCur.input[i].city

C4_Witness ==
    /\ tCur.ran
    /\ \E i \in PairedRows : IsNull(tCur.body[i].city) /\ tCur.input[i].city = Str("London")
    /\ \E i \in PairedRows : tCur.body[i].city = Str("London") /\ tCur.input[i].city = Str("London")

\* C5: when road_condition is not nulled, Snow gives Snowy and Rain or Storm
\* gives Wet; Damaged and Dry occur only for the other weather conditions.
C5_RoadCondition ==
    tCur.ran =>
       \A i \in PairedRows :
          LET rc == tCur.body[i].road_condition
              wc == tCur.input[i].weather_condition
          IN ~IsNull(rc) =>
                /\ wc = Str("Snow") => rc = Str("Snowy")
                /\ wc \in {Str("Rain"), Str("Storm")} => rc = Str("Wet")
                /\ rc \in {Str("Damaged"), Str("Dry")} =>
                      wc \notin {Str("Snow"), Str("Rain"), Str("Storm")}

C5_Witness ==
    /\ tCur.ran
    /\ \E i \in PairedRows :
          /\ tCur.input[i].weather_condition = Str("Snow")
          /\ tCur.body[i].road_condition = Str("Snowy")
    /\ \E i \in PairedRows : tCur.body[i].road_condition \in {Str("Dry"), Str("Damaged"), Str("Wet")}

\* C10: a traffic run that finds no weather file reports it and exits with no
\* traffic row generated and no traffic file written; a traffic table is only
\* ever generated from the complete table of an existing weather file.
C10_UpstreamMissing ==
    /\ [](tpc = "aborted" => (~tCur.ran /\ ~trafficFile.exists))
    /\ [][/\ (tpc = "start" /\ ~weatherFile.exists) =>
                (tpc' = "aborted" /\ tCur' = tCur /\ trafficFile' = trafficFile)
          /\ (tpc = "loaded" /\ tpc' # "loaded") =>
                /\ weatherFile.exists
                /\ wCur.ran /\ weatherFile.rows = wCur.df
                /\ Len(weatherFile.rows) =
                      wcfg.n_rows + DupCount(wcfg.n_rows, wcfg.duplicate_ratio)
                /\ weather_in = ReadCsv(weatherFile.rows)]_vars

C10_Witness == tpc = "aborted" /\ truns = 1 /\ ~weatherFile.exists /\ ~trafficFile.exists

\* ---- claims about merge_datasets.py, checked under SpecMerge
\* the join has been computed (merged_df holds its result)
Joined == mpc \in {"merged", "validated"}
             \/ (mpc \in {"returned", "done", "crashed"} /\ caught \notin {"read", "coerce"})
\* the validation step has been passed or has failed
Validated == Joined /\ mpc # "merged"
KeysOf(df) == {KeyOf(df[i]) : i \in 1..Len(df)}
UniqueKeys(df) == \A i, j \in 1..Len(df) : KeyOf(df[i]) = KeyOf(df[j]) => i = j
SharedKeys == KeysOf(m_weather) \cap KeysOf(m_traffic)

\* C6 (as stated): the merged table never has more rows than the smaller input.
C6_MergeSizeBound ==
    Joined => Len(merged_df) <= Min(Len(m_weather), Len(m_traffic))

\* C6 (amended): the bound by the smaller input holds when the keys are
\* unique within each input table; in general the merged table has one row
\* per matching pair of rows, at most the product of the two row counts.
C6_BoundForUniqueKeys ==
    Joined =>
       /\ Len(merged_df) <= Len(m_weather) * Len(m_traffic)
       /\ (UniqueKeys(m_weather) /\ UniqueKeys(m_traffic)) =>
             Len(merged_df) <= Min(Len(m_weather), Len(m_traffic))

C6_Witness ==
    /\ Joined
    /\ UniqueKeys(m_weather) /\ UniqueKeys(m_traffic)
    /\ Len(m_weather) = MaxWeatherRows /\ Len(m_traffic) = MaxTrafficRows
    /\ Len(merged_df) = Min(Len(m_weather), Len(m_traffic))

\* C7: with keys unique within each input table and k keys present in both,
\* the merged table has exactly k rows, one per shared key, and the rows whose
\* key the other table lacks are dropped.
C7_MergeCorrectness ==
    (Joined /\ UniqueKeys(m_weather) /\ UniqueKeys(m_traffic)) =>
       /\ Len(merged_df) = Cardinality(SharedKeys)
       /\ KeysOf(merged_df) = SharedKeys
       /\ \A i \in 1..Len(merged_df) :
             \E t \in 1..Len(m_traffic), w \in 1..Len(m_weather) :
                /\ KeyOf(m_traffic[t]) = KeyOf(m_weather[w])
                /\ merged_df[i] = MergedRow(m_traffic[t], m_weather[w])

C7_Witness ==
    /\ Joined
    /\ UniqueKeys(m_weather) /\ UniqueKeys(m_traffic)
    /\ Len(m_weather) = 2 /\ Len(m_traffic) = 2
    /\ Cardinality(SharedKeys) = 1 /\ Len(merged_df) = 1

\* C8: a join of zero rows ends in the validation error and no merged file is
\* written; a merged file is written only for a join result of at least one row.
C8_EmptyJoinFails ==
    /\ (Validated /\ Len(merged_df) = 0) =>
          (caught = "validate" /\ goldWrites = 0 /\ ~goldMerged.exists)
    /\ goldWrites > 0 => (Len(merged_df) >= 1 /\ goldMerged.rows = merged_df)
    /\ goldMerged.exists => goldWrites > 0

C8_Witness ==
    /\ caught = "validate" /\ mpc = "returned"
    /\ Len(m_weather) >= 1 /\ Len(m_traffic) >= 1
    /\ Len(merged_df) = 0 /\ goldWrites = 0

\* C9 (as stated): once the zero-row join is detected, merge_data does not
\* complete normally and no later step of the run executes, in particular not
\* the read of the merged artifact in the main block.
C9_FailureStopsPipeline ==
    caught = "validate" => (mpc # "returned" /\ mainReads = 0)

\* ---- claims about single helpers, checked under SpecFn
\* C11 (as stated): with outlier probability 1 every value with_outliers
\* returns lies in [low - 25, low] or [high, high + 25] and strictly outside
\* [low, high], the band endpoints included; with probability 0 the value
\* comes back unchanged.
C11_ForcedOutliers ==
    call.fn = "with_outliers" =>
       /\ call.outlier_ratio = 100 =>
             /\ IsNum(call.ret.v)
             /\ \/ (call.lo - 2500 <= call.ret.v.v /\ call.ret.v.v <= call.lo)
                \/ (call.hi <= call.ret.v.v /\ call.ret.v.v <= call.hi + 2500)
             /\ (call.ret.v.v < call.lo \/ call.ret.v.v > call.hi)
       /\ call.outlier_ratio = 0 => call.ret.v = call.value

\* C12 (as stated): whenever with_outliers is not triggered for a numeric
\* field, the field's value lies inside the [low, high] the generator passes
\* to with_outliers for that field.
C12_RangeContainment ==
    call.fn = "rows" =>
       /\ \A x \in 1..Len(call.wtrace) :
             LET e == call.wtrace[x]
                 value == call.weather[WeatherField[e.k]]
             IN (e.k \in WeatherNumeric /\ ~e.triggered /\ IsNum(value)) =>
                   (WeatherBand(e.k)[1] <= value.v /\ value.v <= WeatherBand(e.k)[2])
       /\ \A x \in 1..Len(call.ttrace) :
             LET e == call.ttrace[x]
                 value == call.traffic[TrafficField[e.k]]
             IN (e.k \in TrafficNumeric /\ ~e.triggered /\ IsNum(value)) =>
                   (TrafficBand(e.k)[1] <= value.v /\ value.v <= TrafficBand(e.k)[2])

\* C16 (as stated): in the weather generator the clean value of every field
\* is derived from the clean values of the fields it depends on, so nulling
\* or shifting those never changes it.
C16_PostDerivation ==
    call.fn = "rows" =>
       \A x \in 1..Len(call.wtrace) : call.wtrace[x].clean = call.wtrace[x].fromClean

\* C13 (as stated): for a numeric weather visibility v the traffic visibility
\* is an integer in [max(0, v - 500), v + 500]; for a non-numeric one it is
\* the default 10000.
C13_TrafficVisibility ==
    call.fn = "get_traffic_visibility" =>
       LET v == call.weather_vis_value
           ret == call.ret.v
       IN /\ IsNum(ret)
          /\ IsNum(v) => /\ ret.v % 100 = 0
                         /\ Max(0, v.v - 50000) <= ret.v /\ ret.v <= v.v + 50000
          /\ ~IsNum(v) => ret = Num(1000000)

\* C13 (amended): the sum v + noise is truncated to an integer and floored at
\* zero: the result is a non-negative integer at most v + 500 and more than
\* v - 501, and inside [max(0, v - 500), v + 500] when v is a whole number;
\* a missing value, a text and a number read back as text give 10000.
C13_TruncatedVisibility ==
    call.fn = "get_traffic_visibility" =>
       LET v == call.weather_vis_value
           ret == call.ret.v
       IN /\ IsNum(ret) /\ ret.v >= 0 /\ ret.v % 100 = 0
          /\ call.ret.p = call.p + 1
          /\ IsNum(v) => /\ ret.v <= v.v + 50000
                         /\ ret.v > v.v - 50100 \/ ret.v = 0
                         /\ v.v % 100 = 0 => Max(0, v.v - 50000) <= ret.v
          /\ ~IsNum(v) => ret = Num(1000000)

C13_Witness ==
    /\ call.fn = "get_traffic_visibility"
    /\ IsNum(call.weather_vis_value) /\ call.weather_vis_value.v % 100 # 0
    /\ call.ret.v.v < call.weather_vis_value.v - 50000

\* C15 (as stated): for two weather tables that differ only in row i, the
\* traffic rows generated at every other index are the same in the two runs.
C15_RowIsolation ==
    call.fn = "isolation" =>
       \A j \in 1..MaxRows : j # call.i => call.rowsA[j] = call.rowsB[j]

\* C17: generate_weather_condition returns Snow only for a temperature of at
\* most 5; otherwise the result is Storm or Rain for a precipitation of 50 or
\* more, Rain from 25, Rain or Clear from 10, Clear or Fog above 0 and Clear
\* at 0.
C17_ConditionCascade ==
    call.fn = "generate_weather_condition" =>
       LET r == call.rain_mm
           t == call.temperature_c
           c == call.ret.v
       IN /\ c = Str("Snow") => (IsNum(t) /\ t.v <= 500)
          /\ (c # Str("Snow") /\ IsNum(r)) =>
                /\ r.v >= 5000 => c \in {Str("Storm"), Str("Rain")}
                /\ (2500 <= r.v /\ r.v < 5000) => c = Str("Rain")
                /\ (1000 <= r.v /\ r.v < 2500) => c \in {Str("Rain"), Str("Clear")}
                /\ (0 < r.v /\ r.v < 1000) => c \in {Str("Clear"), Str("Fog")}
                /\ r.v = 0 => c = Str("Clear")

C17_Witness ==
    /\ call.fn = "generate_weather_condition"
    /\ IsNum(call.temperature_c) /\ call.temperature_c.v <= 500
    /\ IsNum(call.rain_mm) /\ call.rain_mm.v >= 5000
    /\ call.ret.v = Str("Storm") /\ call.ret.p = call.p + 2

\* the thresholds applied to the values that are present
ThresholdLevel(vehicle_count, avg_speed) ==
    IF (IsNum(vehicle_count) /\ vehicle_count.v > 350000)
          \/ (IsNum(avg_speed) /\ avg_speed.v < 1500)
    THEN Str("High")
    ELSE IF (IsNum(vehicle_count) /\ vehicle_count.v > 150000)
               \/ (IsNum(avg_speed) /\ avg_speed.v < 3500)
    THEN Str("Medium")
    ELSE Str("Low")

\* C18 (as stated): determine_congestion returns High whenever vehicle_count
\* exceeds 3500 or avg_speed is below 15, otherwise Medium whenever
\* vehicle_count exceeds 1500 or avg_speed is below 35, otherwise Low, also
\* when one of the two is null.
C18_CongestionThresholds ==
    call.fn = "determine_congestion" =>
       call.ret = ThresholdLevel(call.vehicle_count, call.avg_speed)

\* C18 (amended): the thresholds hold for every pair of numbers; a null
\* vehicle_count gives Low whatever the speed, and a null avg_speed gives High
\* for a vehicle_count above 3500 and Low otherwise.
C18_ThresholdsWithFallback ==
    call.fn = "determine_congestion" =>
       LET vc == call.vehicle_count
           sp == call.avg_speed
       IN /\ (IsNum(vc) /\ IsNum(sp)) => call.ret = ThresholdLevel(vc, sp)
          /\ IsNull(vc) => call.ret = Str("Low")
          /\ (IsNum(vc) /\ IsNull(sp)) =>
                call.ret = (IF vc.v > 350000 THEN Str("High") ELSE Str("Low"))

C18_Witness ==
    /\ call.fn = "determine_congestion"
    /\ IsNull(call.vehicle_count)
    /\ IsNum(call.avg_speed) /\ call.avg_speed.v < 1500
    /\ call.ret = Str("Low")

\* the upper bound of the base band vehicle_count selects
BandTop(vehicle_count) ==
    IF IsNum(vehicle_count) /\ vehicle_count.v > 300000 THEN 3000
    ELSE IF IsNum(vehicle_count) /\ vehicle_count.v > 150000 THEN 5000
    ELSE 9000

\* C19: calculate_avg_speed returns at least 3.0 and at most U + 10, U being
\* the upper bound of the base band of vehicle_count (30, 50 or 90).
C19_SpeedFloorAndBands ==
    call.fn = "calculate_avg_speed" =>
       /\ IsNum(call.ret.v)
       /\ call.ret.v.v >= 300
       /\ call.ret.v.v <= BandTop(call.vehicle_count) + 1000

C19_Witness ==
    /\ call.fn = "calculate_avg_speed"
    /\ IsNum(call.vehicle_count) /\ call.vehicle_count.v > 300000
    /\ call.road_condition = Str("Damaged") /\ call.weather_condition = Str("Rain")
    /\ call.ret.v = Num(300)

\* ---- checked under Spec
\* C14 (as stated): generate_traffic_dataset returns a table without raising,
\* whatever the length and the cells of the weather table it is given.
C14_NoRaise ==
    tCur.ran => ~tCur.raised

====
